---- MODULE Spec2Model ----
(***************************************************************************)
(* A model of script/gen-ball.py: the grid-line mask kernel                *)
(* line_mask_equirect and its nested helpers dist_to_grid and aa_from.     *)
(*                                                                         *)
(* The kernel is vectorised and has no cross-pixel dependency, so the      *)
(* model follows ONE pixel (px, py) of ONE configuration (cfg) through the *)
(* statements of line_mask_equirect, and carries next to each value the    *)
(* numpy shape of the array it is an element of.                           *)
(*                                                                         *)
(* Arithmetic.  Angles are exact integers in "ticks" (Turn(cfg) ticks to   *)
(* the full circle, chosen so every pixel centre, every whole degree and   *)
(* the half circle are whole numbers of ticks).  Pixel distances, widths   *)
(* and coverages are exact non-negative rationals over arbitrary-size      *)
(* naturals (Big: little-endian limbs), so 1e-9 is exactly 10^-9.  cos and *)
(* pi are truncated to 9 decimals.  float64 rounding is not modelled.  A   *)
(* float NaN is the value NaN below.                                       *)
(***************************************************************************)
EXTENDS Integers, Sequences, FiniteSets, TLC

\* ------------------------------------------------------------------------
\* Bounds of the model (not program constants).
\* ------------------------------------------------------------------------
\* Small images: every W in 1..MaxW and H in 1..MaxH, next to the shipped one.
MaxW == 3
MaxH == 3
\* At the shipped size the model follows the pixels within Win pixels of
\* an axis line (equator, poles, the four meridians) and some far ones.
Win == 5

\* ------------------------------------------------------------------------
\* Module constants of gen-ball.py (decimals are kept as tenths).
\* ------------------------------------------------------------------------
SHIP_W == 2048
SHIP_H == 1024
SHIP_SEAM_OFFSET_DEG == 0
SHIP_DLON_DEG_MAJOR == 60
SHIP_DLAT_DEG_MAJOR == 30
SHIP_DLON_DEG_MINOR == 15
SHIP_DLAT_DEG_MINOR == 15
\* AA_WIDTH_MAJOR = 3.8, AA_WIDTH_MINOR = 3.1, in tenths of a pixel
SHIP_AA_WIDTH_MAJOR == 38
SHIP_AA_WIDTH_MINOR == 31
\* MAJOR_EQ_SCALE = 2.0, MAJOR_PM_SCALE = 1.8, in tenths
SHIP_MAJOR_EQ_SCALE == 20
SHIP_MAJOR_PM_SCALE == 18
\* the taper floor 0.2 of np.clip(np.cos(phi), 0.2, 1.0), in tenths
TAPER_FLOOR == 2
\* the disabled-family distance 1e9 (radians) is 10^SENTINEL_EXP
SENTINEL_EXP == 9
\* the anti-alias epsilon 1e-9 is 10^-AA_EPS_EXP
AA_EPS_EXP == 9
\* the emphasis tolerance 1e-6 rad: 2*pi*10^6, truncated (micro-radians a turn)
MICRORAD_PER_TURN == 6283185

\* ------------------------------------------------------------------------
\* Exact naturals of any size: little-endian sequences of limbs in
\* 0..BASE-1, no leading zero limb; <<>> is 0.
\* ------------------------------------------------------------------------
BASE == 10 * 100

Abs(a) == IF a < 0 THEN -a ELSE a
Max2(a, b) == IF a >= b THEN a ELSE b

RECURSIVE Gcd(_, _)
Gcd(a, b) == IF b = 0 THEN a ELSE Gcd(b, a % b)
Lcm(a, b) == (a \div Gcd(a, b)) * b

RECURSIVE BigOf(_)
BigOf(n) == IF n = 0 THEN <<>> ELSE <<n % BASE>> \o BigOf(n \div BASE)

RECURSIVE BNorm(_)
BNorm(a) ==
    IF a = <<>> THEN <<>>
    ELSE IF a[Len(a)] = 0 THEN BNorm(SubSeq(a, 1, Len(a) - 1))
    ELSE a

BShift(a, k) == IF a = <<>> THEN <<>> ELSE [i \in 1..k |-> 0] \o a
BDrop(a, k) == IF Len(a) <= k THEN <<>> ELSE SubSeq(a, k + 1, Len(a))

RECURSIVE BAddC(_, _, _)
BAddC(a, b, c) ==
    IF a = <<>> /\ b = <<>> THEN (IF c = 0 THEN <<>> ELSE <<c>>)
    ELSE LET x == IF a = <<>> THEN 0 ELSE Head(a)
             y == IF b = <<>> THEN 0 ELSE Head(b)
             s == x + y + c
         IN  <<s % BASE>> \o BAddC(IF a = <<>> THEN <<>> ELSE Tail(a),
                                   IF b = <<>> THEN <<>> ELSE Tail(b),
                                   s \div BASE)
BAdd(a, b) == BAddC(a, b, 0)

\* a - b for a >= b
RECURSIVE BSubC(_, _, _)
BSubC(a, b, c) ==
    IF a = <<>> THEN <<>>
    ELSE LET y == IF b = <<>> THEN 0 ELSE Head(b)
             s == Head(a) - y - c
         IN  <<IF s < 0 THEN s + BASE ELSE s>>
             \o BSubC(Tail(a), IF b = <<>> THEN <<>> ELSE Tail(b),
                      IF s < 0 THEN 1 ELSE 0)
BSub(a, b) == BNorm(BSubC(a, b, 0))

\* a * k for a native 0 <= k < 2 * 10^6
RECURSIVE BMulSmallC(_, _, _)
BMulSmallC(a, k, c) ==
    IF a = <<>> THEN BigOf(c)
    ELSE LET s == Head(a) * k + c
         IN  <<s % BASE>> \o BMulSmallC(Tail(a), k, s \div BASE)
BMulSmall(a, k) == IF k = 0 THEN <<>> ELSE BMulSmallC(a, k, 0)

RECURSIVE BMul(_, _)
BMul(a, b) ==
    IF a = <<>> \/ b = <<>> THEN <<>>
    ELSE BAdd(BMulSmall(b, Head(a)), BShift(BMul(Tail(a), b), 1))

\* floor(a / k) for a native 0 < k < 2 * 10^6: long division from the top limb
RECURSIVE BDivSmallR(_, _, _)
BDivSmallR(a, k, r) ==
    IF a = <<>> THEN <<>>
    ELSE LET cur == r * BASE + a[Len(a)]
         IN  BDivSmallR(SubSeq(a, 1, Len(a) - 1), k, cur % k) \o <<cur \div k>>
BDivSmall(a, k) == BNorm(BDivSmallR(a, k, 0))

\* -1, 0, 1 as a < b, a = b, a > b
RECURSIVE BCmp(_, _)
BCmp(a, b) ==
    IF Len(a) # Len(b) THEN (IF Len(a) < Len(b) THEN -1 ELSE 1)
    ELSE IF a = <<>> THEN 0
    ELSE IF a[Len(a)] # b[Len(b)] THEN (IF a[Len(a)] < b[Len(b)] THEN -1 ELSE 1)
    ELSE BCmp(SubSeq(a, 1, Len(a) - 1), SubSeq(b, 1, Len(b) - 1))

\* 10^e
RECURSIVE BPow10(_)
BPow10(e) == IF e = 0 THEN <<1>> ELSE BMulSmall(BPow10(e - 1), 10)

\* ------------------------------------------------------------------------
\* float values: NaN, or an exact non-negative rational n/d (d > 0).
\* ------------------------------------------------------------------------
NaN == [nan |-> TRUE, n |-> <<>>, d |-> <<1>>]
\* n/d; a factor BASE common to both is cancelled
RECURSIVE RatB(_, _)
RatB(n, d) ==
    IF n # <<>> /\ Head(n) = 0 /\ Head(d) = 0 THEN RatB(Tail(n), Tail(d))
    ELSE [nan |-> FALSE, n |-> n, d |-> d]
Rat(n, d) == RatB(BigOf(n), BigOf(d))
ZERO == Rat(0, 1)
ONE == Rat(1, 1)

IsNaN(a) == a.nan
\* float comparisons: every comparison with a NaN is false
RLe(a, b) == ~a.nan /\ ~b.nan /\ BCmp(BMul(a.n, b.d), BMul(b.n, a.d)) <= 0
RLt(a, b) == ~a.nan /\ ~b.nan /\ BCmp(BMul(a.n, b.d), BMul(b.n, a.d)) < 0
REq(a, b) == ~a.nan /\ ~b.nan /\ BCmp(BMul(a.n, b.d), BMul(b.n, a.d)) = 0

RAdd(a, b) ==
    IF a.nan \/ b.nan THEN NaN
    ELSE IF a.d = b.d THEN RatB(BAdd(a.n, b.n), a.d)
    ELSE RatB(BAdd(BMul(a.n, b.d), BMul(b.n, a.d)), BMul(a.d, b.d))
\* a - b for a >= b
RSub(a, b) ==
    IF a.nan \/ b.nan THEN NaN
    ELSE IF a.d = b.d THEN RatB(BSub(a.n, b.n), a.d)
    ELSE RatB(BSub(BMul(a.n, b.d), BMul(b.n, a.d)), BMul(a.d, b.d))
RMul(a, b) ==
    IF a.nan \/ b.nan THEN NaN
    ELSE RatB(BMul(a.n, b.n), BMul(a.d, b.d))
\* a / b.  0/0 is nan; x/0 for x > 0 is inf, which no use below produces
RDiv(a, b) ==
    IF a.nan \/ b.nan \/ b.n = <<>> THEN NaN
    ELSE RatB(BMul(a.n, b.d), BMul(a.d, b.n))

\* ------------------------------------------------------------------------
\* Configuration: the module constants line_mask_equirect reads.
\* ------------------------------------------------------------------------
Shipped ==
    [W |-> SHIP_W, H |-> SHIP_H, UV_ORIGIN |-> "TOP_LEFT",
     SEAM_OFFSET_DEG |-> SHIP_SEAM_OFFSET_DEG,
     DLON_DEG_MAJOR |-> SHIP_DLON_DEG_MAJOR, DLAT_DEG_MAJOR |-> SHIP_DLAT_DEG_MAJOR,
     DLON_DEG_MINOR |-> SHIP_DLON_DEG_MINOR, DLAT_DEG_MINOR |-> SHIP_DLAT_DEG_MINOR,
     AA_WIDTH_MAJOR |-> SHIP_AA_WIDTH_MAJOR, AA_WIDTH_MINOR |-> SHIP_AA_WIDTH_MINOR,
     MAJOR_EQ_SCALE |-> SHIP_MAJOR_EQ_SCALE, MAJOR_PM_SCALE |-> SHIP_MAJOR_PM_SCALE,
     POLE_TAPER |-> TRUE]

Families == {"lon_major", "lat_major", "lon_minor", "lat_minor"}

\* Ticks to the full circle: W pixel centres, H pixel centres over the half
\* circle, and 360 degrees all fall on whole ticks.
Turn(cfg) == 720 * Lcm(cfg.W, 2 * cfg.H)
\* math.radians(deg), in ticks
Radians(cfg, deg) == deg * (Turn(cfg) \div 360)

\* ------------------------------------------------------------------------
\* Coordinate mapping (lines 52-61).
\* ------------------------------------------------------------------------
\* lam = 2*pi*u - pi + radians(SEAM_OFFSET_DEG), u = (x + 0.5) / W
LamRaw(cfg, x) ==
    (2 * x + 1) * (Turn(cfg) \div (2 * cfg.W)) - Turn(cfg) \div 2
        + Radians(cfg, cfg.SEAM_OFFSET_DEG)

\* a wrap with the wrong period: % math.pi for % (2*math.pi)
LamWrapHalfPeriod(cfg, a) ==
    ((a + Turn(cfg) \div 2) % (Turn(cfg) \div 2)) - Turn(cfg) \div 2
\* no wrap at all
LamWrapNone(cfg, a) == a
\* lam = (lam + pi) % (2*pi) - pi; Python's % takes the sign of the divisor
LamWrap(cfg, a) == ((a + Turn(cfg) \div 2) % Turn(cfg)) - Turn(cfg) \div 2

Lam(cfg, x) == LamWrap(cfg, LamRaw(cfg, x))

\* phi = pi * (0.5 - v) if UV_ORIGIN is TOP_LEFT else pi * (v - 0.5), v = (y + 0.5) / H
Phi(cfg, y) ==
    IF cfg.UV_ORIGIN = "TOP_LEFT"
    THEN (cfg.H - (2 * y + 1)) * (Turn(cfg) \div (4 * cfg.H))
    ELSE ((2 * y + 1) - cfg.H) * (Turn(cfg) \div (4 * cfg.H))

\* ------------------------------------------------------------------------
\* Grid distance field (lines 66-73).  An angular distance is NaN, a whole
\* number of ticks, or the disabled-family constant 1e9 (radians).
\* ------------------------------------------------------------------------
AngNaN == [kind |-> "nan", t |-> 0]
AngSentinel == [kind |-> "1e9", t |-> 0]
AngTicks(t) == [kind |-> "ticks", t |-> t]

\* np.round(a / s) for s > 0: to the nearest integer, a tie to the even one
RoundHalfEven(a, s) ==
    LET q == a \div s
        r == a - q * s
    IN  IF 2 * r < s THEN q
        ELSE IF 2 * r > s THEN q + 1
        ELSE IF q % 2 = 0 THEN q ELSE q + 1

\* dist_to_grid(angle, step_rad).  With step_rad = 0.0 the quotient angle/0.0
\* is +-inf (nan for angle = 0), k * 0.0 is nan, and the result is nan.
DistToGrid(angle, step) ==
    IF step = 0 THEN AngNaN
    ELSE AngTicks(Abs(angle - RoundHalfEven(angle, step) * step))

\* lines 70-73: the major families are computed unconditionally, a minor one
\* with a zero step is np.full_like(..., 1e9)
Distances(cfg, lam, phi) ==
    [lon_major |-> DistToGrid(lam, Radians(cfg, cfg.DLON_DEG_MAJOR)),
     lat_major |-> DistToGrid(phi, Radians(cfg, cfg.DLAT_DEG_MAJOR)),
     lon_minor |-> IF cfg.DLON_DEG_MINOR # 0
                   THEN DistToGrid(lam, Radians(cfg, cfg.DLON_DEG_MINOR))
                   ELSE AngSentinel,
     lat_minor |-> IF cfg.DLAT_DEG_MINOR # 0
                   THEN DistToGrid(phi, Radians(cfg, cfg.DLAT_DEG_MINOR))
                   ELSE AngSentinel]

\* ------------------------------------------------------------------------
\* Line-width field (lines 76-93).
\* ------------------------------------------------------------------------
\* |a| < 1e-6 (radians) for an angle of a ticks
Near0(cfg, a) == Abs(a) <= (Turn(cfg) - 1) \div MICRORAD_PER_TURN

\* pm_emph = (|lam| < 1e-6) | (| |lam| - pi/2 | < 1e-6)
PmEmph(cfg, lam) == Near0(cfg, lam) \/ Near0(cfg, Abs(lam) - Turn(cfg) \div 4)
\* eq_emph = |phi| < 1e-6
EqEmph(cfg, phi) == Near0(cfg, phi)

\* 2*pi in nano-radians, truncated
TwoPiNano == BAdd(BMulSmall(BigOf(MICRORAD_PER_TURN), 1000), BigOf(307))

\* the Taylor series of cos in 9-decimal fixed point: term is the last term
\* added, k its index; pos and neg are the sums of the even and odd terms
RECURSIVE CosSeries(_, _, _, _, _)
CosSeries(term, x2, k, pos, neg) ==
    LET nt == BDivSmall(BDrop(BMul(term, x2), 3), (2 * k + 1) * (2 * k + 2))
    IN  IF nt = <<>>
        THEN (IF BCmp(pos, neg) >= 0 THEN BSub(pos, neg) ELSE <<>>)
        ELSE IF k % 2 = 0
             THEN CosSeries(nt, x2, k + 1, pos, BAdd(neg, nt))
             ELSE CosSeries(nt, x2, k + 1, BAdd(pos, nt), neg)

\* np.cos(phi) for |phi| <= pi/2, as a rational with denominator 10^9
Cos(cfg, phi) ==
    LET x == BDivSmall(BMulSmall(TwoPiNano, Abs(phi)), Turn(cfg))
        x2 == BDrop(BMul(x, x), 3)
    IN  RatB(CosSeries(BPow10(9), x2, 0, BPow10(9), <<>>), BPow10(9))

\* np.clip(a, lo, hi)
Clip(a, lo, hi) ==
    IF a.nan THEN NaN
    ELSE IF RLt(a, lo) THEN lo
    ELSE IF RLt(hi, a) THEN hi
    ELSE a

\* a taper without the floor: np.cos(phi) alone
TaperNoFloor(cfg, phi) == Cos(cfg, phi)
\* taper = np.clip(np.cos(phi), 0.2, 1.0)
Taper(cfg, phi) == Clip(Cos(cfg, phi), Rat(TAPER_FLOOR, 10), ONE)

\* 1 + (scale - 1) * emph, for a scale in tenths and a boolean emph
Emphasis(scale, emph) == IF emph THEN Rat(scale, 10) ELSE ONE

\* the equator emphasis put on the longitude family instead
PreTaperWidthsSwapped(cfg, lam, phi) ==
    [lon_major |-> RMul(Rat(cfg.AA_WIDTH_MAJOR, 10),
                        Emphasis(cfg.MAJOR_EQ_SCALE, EqEmph(cfg, phi))),
     lat_major |-> RMul(Rat(cfg.AA_WIDTH_MAJOR, 10),
                        Emphasis(cfg.MAJOR_PM_SCALE, PmEmph(cfg, lam))),
     lon_minor |-> Rat(cfg.AA_WIDTH_MINOR, 10),
     lat_minor |-> Rat(cfg.AA_WIDTH_MINOR, 10)]

\* the widths before the POLE_TAPER branch (lines 76-83, and the
\* np.full_like(..., AA_WIDTH_MINOR) of lines 89-93)
PreTaperWidths(cfg, lam, phi) ==
    [lon_major |-> RMul(Rat(cfg.AA_WIDTH_MAJOR, 10),
                        Emphasis(cfg.MAJOR_PM_SCALE, PmEmph(cfg, lam))),
     lat_major |-> RMul(Rat(cfg.AA_WIDTH_MAJOR, 10),
                        Emphasis(cfg.MAJOR_EQ_SCALE, EqEmph(cfg, phi))),
     lon_minor |-> Rat(cfg.AA_WIDTH_MINOR, 10),
     lat_minor |-> Rat(cfg.AA_WIDTH_MINOR, 10)]

\* lines 85-93
Widths(cfg, lam, phi) ==
    LET pre == PreTaperWidths(cfg, lam, phi)
    IN  IF cfg.POLE_TAPER
        THEN [f \in Families |-> RMul(pre[f], Taper(cfg, phi))]
        ELSE pre

\* ------------------------------------------------------------------------
\* Pixel distances (lines 63-64, 95-98) and coverage (lines 100-111).
\* ------------------------------------------------------------------------
\* dist * px_per_rad, px_per_rad = n / (2*pi): n = W for longitude and 2*H
\* for latitude (px_per_rad_y = H / pi)
ToPixels(cfg, dist, n) ==
    CASE dist.kind = "nan" -> NaN
      [] dist.kind = "ticks" -> Rat(dist.t, Turn(cfg) \div n)
      [] dist.kind = "1e9" ->
            RatB(BMulSmall(BPow10(SENTINEL_EXP + 9), n), TwoPiNano)

\* px_per_rad_y = H / (2*pi) in place of H / pi
PixelDistancesLatHalved(cfg, dist) ==
    [lon_major |-> ToPixels(cfg, dist.lon_major, cfg.W),
     lat_major |-> ToPixels(cfg, dist.lat_major, cfg.H),
     lon_minor |-> ToPixels(cfg, dist.lon_minor, cfg.W),
     lat_minor |-> ToPixels(cfg, dist.lat_minor, cfg.H)]
\* lines 63-64 and 95-98
PixelDistances(cfg, dist) ==
    [lon_major |-> ToPixels(cfg, dist.lon_major, cfg.W),
     lat_major |-> ToPixels(cfg, dist.lat_major, 2 * cfg.H),
     lon_minor |-> ToPixels(cfg, dist.lon_minor, cfg.W),
     lat_minor |-> ToPixels(cfg, dist.lat_minor, 2 * cfg.H)]

AA_EPS == RatB(<<1>>, BPow10(AA_EPS_EXP))

\* aa_from without the epsilon: dist_px / width_px
AaFromNoEps(dist_px, width_px) ==
    LET t == RSub(ONE, Clip(RDiv(dist_px, width_px), ZERO, ONE))
    IN  IF ~dist_px.nan /\ ~width_px.nan /\ width_px.n = <<>> /\ dist_px.n # <<>>
        THEN ZERO
        ELSE RMul(t, t)
\* aa_from over twice the width
AaFromWide(dist_px, width_px) ==
    LET t == RSub(ONE, Clip(RDiv(dist_px, RAdd(RAdd(width_px, width_px), AA_EPS)),
                            ZERO, ONE))
    IN  RMul(t, t)
\* aa_from(dist_px, width_px): t = 1 - clip(dist_px / (width_px + 1e-9), 0, 1); t * t
AaFrom(dist_px, width_px) ==
    LET t == RSub(ONE, Clip(RDiv(dist_px, RAdd(width_px, AA_EPS)), ZERO, ONE))
    IN  RMul(t, t)

Coverages(dist_px, width) == [f \in Families |-> AaFrom(dist_px[f], width[f])]

\* np.maximum(a, b): a NaN operand gives NaN
RMax(a, b) == IF a.nan \/ b.nan THEN NaN ELSE IF RLe(b, a) THEN a ELSE b

\* a composite that leaves the minor latitude family out
CompositeDropped(cov) ==
    RMax(RMax(cov.lon_major, cov.lat_major), cov.lon_minor)
\* t = np.maximum(np.maximum(t_lon_major, t_lat_major),
\*                np.maximum(t_lon_minor, t_lat_minor))
Composite(cov) ==
    RMax(RMax(cov.lon_major, cov.lat_major), RMax(cov.lon_minor, cov.lat_minor))

\* ------------------------------------------------------------------------
\* numpy shapes: <<rows, columns>>.
\* ------------------------------------------------------------------------
\* the shape of an element-wise operation on two arrays
Broadcast(a, b) == <<Max2(a[1], b[1]), Max2(a[2], b[2])>>
RowShape(cfg) == <<1, cfg.W>>
ColShape(cfg) == <<cfg.H, 1>>
FullShape(cfg) == <<cfg.H, cfg.W>>

\* lines 52-61: x is (np.arange(W) + 0.5)[None, :], y is (np.arange(H) + 0.5)[:, None]
CoordShapes(cfg) ==
    [x |-> RowShape(cfg), y |-> ColShape(cfg), u |-> RowShape(cfg),
     v |-> ColShape(cfg), lam |-> RowShape(cfg), phi |-> ColShape(cfg)]

\* lines 70-73: dist_to_grid keeps the shape of its angle; np.full_like(a, ...)
\* has the shape of a
DistShapes(sh) ==
    [dlon_major |-> sh.lam, dlat_major |-> sh.phi,
     dlon_minor |-> sh.lam, dlat_minor |-> sh.phi]

\* lines 76-93
WidthShapes(cfg, sh) ==
    LET lonw == Broadcast(sh.dlon_major, sh.lam)
        latw == Broadcast(sh.dlat_major, sh.phi)
    IN  [pm_emph |-> sh.lam, eq_emph |-> sh.phi] @@
        (IF cfg.POLE_TAPER
         THEN [taper |-> sh.phi,
               w_lon_major |-> Broadcast(lonw, sh.phi),
               w_lat_major |-> Broadcast(latw, sh.phi),
               w_lon_minor |-> Broadcast(sh.dlon_major, sh.phi),
               w_lat_minor |-> Broadcast(sh.dlat_major, sh.phi)]
         ELSE [w_lon_major |-> lonw, w_lat_major |-> latw,
               w_lon_minor |-> sh.dlon_major, w_lat_minor |-> sh.dlat_major])

\* the element-wise multiplies of two arrays in lines 76-93, as
\* <<line, shape of the left operand, shape of the right operand>>
WidthMultiplies(cfg, sh) ==
    {<<80, sh.dlon_major, sh.lam>>, <<83, sh.dlat_major, sh.phi>>} \cup
    (IF cfg.POLE_TAPER
     THEN {<<87, Broadcast(sh.dlon_major, sh.lam), sh.phi>>,
           <<88, Broadcast(sh.dlat_major, sh.phi), sh.phi>>,
           <<89, sh.dlon_major, sh.phi>>,
           <<90, sh.dlat_major, sh.phi>>}
     ELSE {})

\* lines 95-98: an array times a scalar
PixelShapes(sh) ==
    [dist_lon_px_major |-> sh.dlon_major, dist_lat_px_major |-> sh.dlat_major,
     dist_lon_px_minor |-> sh.dlon_minor, dist_lat_px_minor |-> sh.dlat_minor]

\* lines 104-107
CoverageShapes(sh) ==
    [t_lon_major |-> Broadcast(sh.dist_lon_px_major, sh.w_lon_major),
     t_lat_major |-> Broadcast(sh.dist_lat_px_major, sh.w_lat_major),
     t_lon_minor |-> Broadcast(sh.dist_lon_px_minor, sh.w_lon_minor),
     t_lat_minor |-> Broadcast(sh.dist_lat_px_minor, sh.w_lat_minor)]

\* lines 109-111
MaskShape(sh) ==
    [t |-> Broadcast(Broadcast(sh.t_lon_major, sh.t_lat_major),
                     Broadcast(sh.t_lon_minor, sh.t_lat_minor))]

\* ------------------------------------------------------------------------
\* The configurations and pixels the model runs.
\* ------------------------------------------------------------------------
Origins == {"TOP_LEFT", "BOTTOM_LEFT"}
\* negative, zero, positive, and more than a full turn
SeamOffsets == {-90, SHIP_SEAM_OFFSET_DEG, 30, 180, 450}
\* <<DLON_DEG_MAJOR, DLAT_DEG_MAJOR, DLON_DEG_MINOR, DLAT_DEG_MINOR>>: the
\* shipped steps, each family's step zero in turn, and a major longitude step
\* that divides 360 but not 180
StepSets ==
    {<<SHIP_DLON_DEG_MAJOR, SHIP_DLAT_DEG_MAJOR, SHIP_DLON_DEG_MINOR, SHIP_DLAT_DEG_MINOR>>,
     <<0, SHIP_DLAT_DEG_MAJOR, SHIP_DLON_DEG_MINOR, SHIP_DLAT_DEG_MINOR>>,
     <<SHIP_DLON_DEG_MAJOR, 0, SHIP_DLON_DEG_MINOR, SHIP_DLAT_DEG_MINOR>>,
     <<SHIP_DLON_DEG_MAJOR, SHIP_DLAT_DEG_MAJOR, 0, SHIP_DLAT_DEG_MINOR>>,
     <<SHIP_DLON_DEG_MAJOR, SHIP_DLAT_DEG_MAJOR, SHIP_DLON_DEG_MINOR, 0>>,
     <<2 * SHIP_DLON_DEG_MAJOR, SHIP_DLAT_DEG_MAJOR, 0, 0>>}
\* <<AA_WIDTH_MAJOR, AA_WIDTH_MINOR>> in tenths: shipped, zero, half a pixel
WidthSets == {<<SHIP_AA_WIDTH_MAJOR, SHIP_AA_WIDTH_MINOR>>, <<0, 0>>, <<5, 5>>}

Config(size, origin, seam, steps, widths, taper) ==
    [W |-> size[1], H |-> size[2], UV_ORIGIN |-> origin, SEAM_OFFSET_DEG |-> seam,
     DLON_DEG_MAJOR |-> steps[1], DLAT_DEG_MAJOR |-> steps[2],
     DLON_DEG_MINOR |-> steps[3], DLAT_DEG_MINOR |-> steps[4],
     AA_WIDTH_MAJOR |-> widths[1], AA_WIDTH_MINOR |-> widths[2],
     MAJOR_EQ_SCALE |-> SHIP_MAJOR_EQ_SCALE, MAJOR_PM_SCALE |-> SHIP_MAJOR_PM_SCALE,
     POLE_TAPER |-> taper]

\* in how many settings other than POLE_TAPER a configuration differs from
\* the shipped one
Deviations(c) ==
    (IF c.UV_ORIGIN # Shipped.UV_ORIGIN THEN 1 ELSE 0)
    + (IF c.SEAM_OFFSET_DEG # Shipped.SEAM_OFFSET_DEG THEN 1 ELSE 0)
    + (IF <<c.DLON_DEG_MAJOR, c.DLAT_DEG_MAJOR, c.DLON_DEG_MINOR, c.DLAT_DEG_MINOR>>
          # <<Shipped.DLON_DEG_MAJOR, Shipped.DLAT_DEG_MAJOR,
              Shipped.DLON_DEG_MINOR, Shipped.DLAT_DEG_MINOR>> THEN 1 ELSE 0)
    + (IF <<c.AA_WIDTH_MAJOR, c.AA_WIDTH_MINOR>>
          # <<Shipped.AA_WIDTH_MAJOR, Shipped.AA_WIDTH_MINOR>> THEN 1 ELSE 0)

ShippedSize == <<SHIP_W, SHIP_H>>
SmallSizes == (1..MaxW) \X (1..MaxH)

\* Small images: the taper on or off, and the shipped settings changed in at
\* most one other place.  Shipped size: the shipped settings, with the taper
\* on or off and the widths shipped or half a pixel.
Configs ==
    {c \in {Config(size, o, s, st, w, t) :
                size \in SmallSizes, o \in Origins, s \in SeamOffsets,
                st \in StepSets, w \in WidthSets, t \in BOOLEAN} :
        Deviations(c) <= 1}
    \cup {Config(ShippedSize, Shipped.UV_ORIGIN, Shipped.SEAM_OFFSET_DEG,
                 <<SHIP_DLON_DEG_MAJOR, SHIP_DLAT_DEG_MAJOR,
                   SHIP_DLON_DEG_MINOR, SHIP_DLAT_DEG_MINOR>>, w, t) :
              w \in WidthSets \ {<<0, 0>>}, t \in BOOLEAN}

\* a column and a row of the shipped image more than 40 pixels from every line
FarCol(c) == c.W \div 48
MidRow(c) == c.H \div 2 - c.H \div 24
\* the four meridians -pi, -pi/2, 0, pi/2 lie on the left edges of these columns
MeridianCols(c) == {0, c.W \div 4, c.W \div 2, 3 * (c.W \div 4)}

Cols(c) ==
    IF c.W <= MaxW THEN 0..(c.W - 1)
    ELSE {(m + k + c.W) % c.W : m \in MeridianCols(c), k \in (-Win)..(Win - 1)}
         \cup {FarCol(c)}
Rows(c) ==
    IF c.H <= MaxH THEN 0..(c.H - 1)
    ELSE {c.H \div 2 + k : k \in (-Win)..(Win - 1)} \cup {0, c.H - 1, MidRow(c)}
\* the rows and columns followed in full at the shipped size: the pole rows,
\* the far row and the two rows next to the equator; the far column and the
\* two columns next to lambda = 0
KeyRows(c) == {0, c.H - 1, MidRow(c), c.H \div 2 - 1, c.H \div 2}
KeyCols(c) == {FarCol(c), c.W \div 2 - 1, c.W \div 2}
\* <<x, y>>: every pixel of a small image; of the shipped one, the sampled
\* columns of the key rows and the sampled rows of the key columns
Pixels(c) ==
    IF c.W <= MaxW /\ c.H <= MaxH THEN Cols(c) \X Rows(c)
    ELSE (Cols(c) \X KeyRows(c)) \cup (KeyCols(c) \X Rows(c))

\* ------------------------------------------------------------------------
\* The state machine: line_mask_equirect, statement group by statement group,
\* at pixel (px, py).
\* ------------------------------------------------------------------------
VARIABLES cfg, px, py, pc, lam, phi, dist, width, dist_px, cov, mask, shape, bcast

vars == <<cfg, px, py, pc, lam, phi, dist, width, dist_px, cov, mask, shape, bcast>>

Stages == <<"start", "coords", "dist", "width", "px", "cov", "done">>
StageNo(s) == CHOOSE i \in 1..Len(Stages) : Stages[i] = s
\* the statement group named s has run
Ran(s) == StageNo(pc) >= StageNo(s)

NoAngles == [f \in Families |-> AngNaN]
NoValues == [f \in Families |-> NaN]

Init ==
    /\ cfg \in Configs
    /\ \E p \in Pixels(cfg) : px = p[1] /\ py = p[2]
    /\ pc = "start"
    /\ lam = 0
    /\ phi = 0
    /\ dist = NoAngles
    /\ width = NoValues
    /\ dist_px = NoValues
    /\ cov = NoValues
    /\ mask = NaN
    /\ shape = <<>>
    /\ bcast = {}

\* lines 52-61
MapCoordinates ==
    /\ pc = "start"
    /\ pc' = "coords"
    /\ lam' = Lam(cfg, px)
    /\ phi' = Phi(cfg, py)
    /\ shape' = CoordShapes(cfg)
    /\ UNCHANGED <<cfg, px, py, dist, width, dist_px, cov, mask, bcast>>

\* lines 66-73
DistanceFields ==
    /\ pc = "coords"
    /\ pc' = "dist"
    /\ dist' = Distances(cfg, lam, phi)
    /\ shape' = shape @@ DistShapes(shape)
    /\ UNCHANGED <<cfg, px, py, lam, phi, width, dist_px, cov, mask, bcast>>

\* lines 76-93
WidthFields ==
    /\ pc = "dist"
    /\ pc' = "width"
    /\ width' = Widths(cfg, lam, phi)
    /\ shape' = shape @@ WidthShapes(cfg, shape)
    /\ bcast' = {m \in WidthMultiplies(cfg, shape) : m[2] # m[3]}
    /\ UNCHANGED <<cfg, px, py, lam, phi, dist, dist_px, cov, mask>>

\* lines 63-64 and 95-98
ToPixelUnits ==
    /\ pc = "width"
    /\ pc' = "px"
    /\ dist_px' = PixelDistances(cfg, dist)
    /\ shape' = shape @@ PixelShapes(shape)
    /\ UNCHANGED <<cfg, px, py, lam, phi, dist, width, cov, mask, bcast>>

\* lines 100-107
Coverage ==
    /\ pc = "px"
    /\ pc' = "cov"
    /\ cov' = Coverages(dist_px, width)
    /\ shape' = shape @@ CoverageShapes(shape)
    /\ UNCHANGED <<cfg, px, py, lam, phi, dist, width, dist_px, mask, bcast>>

\* lines 109-111
Compose ==
    /\ pc = "cov"
    /\ pc' = "done"
    /\ mask' = Composite(cov)
    /\ shape' = shape @@ MaskShape(shape)
    /\ UNCHANGED <<cfg, px, py, lam, phi, dist, width, dist_px, cov, bcast>>

Next ==
    \/ MapCoordinates
    \/ DistanceFields
    \/ WidthFields
    \/ ToPixelUnits
    \/ Coverage
    \/ Compose

Spec == Init /\ [][Next]_vars

\* ========================================================================
\* The claims.
\* ========================================================================
StepOf(c, f) ==
    CASE f = "lon_major" -> c.DLON_DEG_MAJOR
      [] f = "lat_major" -> c.DLAT_DEG_MAJOR
      [] f = "lon_minor" -> c.DLON_DEG_MINOR
      [] f = "lat_minor" -> c.DLAT_DEG_MINOR
\* both major steps are positive, as dist_to_grid needs (a zero major step
\* is the subject of C4)
MajorStepsPositive == cfg.DLON_DEG_MAJOR > 0 /\ cfg.DLAT_DEG_MAJOR > 0

\* ------------------------------------------------------------------------
\* C1: for every pixel and each of the four families the coverage aa_from
\* returns lies in [0, 1], and the mask is the maximum of the four coverages:
\* no coverage exceeds it and one equals it (so it lies in [0, 1] too and is
\* no sum).  Checked for every configuration with positive major steps.
C1_CoverageInUnitRangeMaskIsMax ==
    MajorStepsPositive =>
        /\ pc = "cov" =>
              \A f \in Families : RLe(ZERO, cov[f]) /\ RLe(cov[f], ONE)
        /\ pc = "done" =>
              /\ \A f \in Families : RLe(cov[f], mask)
              /\ \E f \in Families : REq(cov[f], mask)
              /\ RLe(ZERO, mask) /\ RLe(mask, ONE)

\* a pixel of the shipped image lit partly, with two families covering it differently
C1_Witness ==
    /\ pc = "done" /\ cfg = Shipped
    /\ RLt(ZERO, mask) /\ RLt(mask, ONE)
    /\ \E f \in Families : RLt(cov[f], mask)
    /\ \E f \in Families : RLt(ZERO, cov[f]) /\ REq(cov[f], mask)

\* ------------------------------------------------------------------------
\* C2.  Distances of a pixel centre of the shipped image from the axis lines,
\* in half pixels: the equator is the edge between rows H/2 - 1 and H/2, a
\* meridian the left edge of its column (the seam for column 0).
Min2(a, b) == IF a <= b THEN a ELSE b
RowDist2(c, y) == Abs(2 * y + 1 - c.H)
ColDist2To(c, x, m) ==
    LET d == Abs(2 * x + 1 - 2 * m) IN Min2(d, 2 * c.W - d)
MajorMeridianCols(c) == {0, c.W \div 2}
MinorMeridianCols(c) == {c.W \div 4, 3 * (c.W \div 4)}
ColDist2(c, x) ==
    CHOOSE d \in {ColDist2To(c, x, m) : m \in MeridianCols(c)} :
        \A m \in MeridianCols(c) : d <= ColDist2To(c, x, m)
NextToEquator(c, y) == RowDist2(c, y) = 1
NextToMeridian(c, x) == ColDist2(c, x) = 1
PoleRow(c, y) == y = 0 \/ y = c.H - 1

FieldNames ==
    {"lam", "phi", "dlon_major", "dlat_major", "dlon_minor", "dlat_minor",
     "pm_emph", "eq_emph", "taper", "w_lon_major", "w_lat_major", "w_lon_minor",
     "w_lat_minor", "t_lon_major", "t_lat_major", "t_lon_minor", "t_lat_minor", "t"}
C3_ShapeInvariant ==
    /\ \A name \in FieldNames \cap DOMAIN shape : shape[name] = FullShape(cfg)
    /\ bcast = {}

\* ------------------------------------------------------------------------
\* C4: a family whose step is zero is disabled: its coverage is 0 at every
\* pixel, the mask is the maximum of the other families' coverages, and no
\* value of line_mask_equirect is NaN.
C4_ZeroStepDisablesFamily ==
    Ran("done") =>
        \A f \in Families : StepOf(cfg, f) = 0 =>
            /\ REq(cov[f], ZERO)
            /\ \A g \in Families \ {f} : RLe(cov[g], mask)
            /\ \E g \in Families \ {f} : REq(cov[g], mask)
            /\ \A g \in Families : ~IsNaN(dist_px[g]) /\ ~IsNaN(cov[g])
            /\ ~IsNaN(mask)

\* ------------------------------------------------------------------------
\* C5 as claimed: where every family's pixel distance is >= its half-width
\* (equality and a zero width included) the mask is exactly 0.
C5_Original ==
    (pc = "done" /\ \A f \in Families : RLe(width[f], dist_px[f]))
    => REq(mask, ZERO)

\* C5 as amended: where every family's pixel distance is >= its half-width
\* plus the epsilon 1e-9 of aa_from, the mask is exactly 0.
C5_FiniteSupport ==
    (pc = "done" /\ \A f \in Families : RLe(RAdd(width[f], AA_EPS), dist_px[f]))
    => REq(mask, ZERO)

\* a pixel of the shipped image beyond the width of a line 4.5 px away
C5_Witness ==
    /\ pc = "done" /\ cfg = Shipped
    /\ \A f \in Families : RLe(RAdd(width[f], AA_EPS), dist_px[f])
    /\ \E f \in Families : RLt(dist_px[f], RAdd(width[f], width[f]))
    /\ REq(mask, ZERO)

\* ------------------------------------------------------------------------
\* C6 as claimed: -pi < lambda <= pi and -pi/2 <= phi <= pi/2 at every pixel.
C6_Original ==
    Ran("coords") =>
        /\ -(Turn(cfg) \div 2) < lam /\ lam <= Turn(cfg) \div 2
        /\ -(Turn(cfg) \div 4) <= phi /\ phi <= Turn(cfg) \div 4

\* C6 as amended: -pi <= lambda <= pi and -pi/2 <= phi <= pi/2 at every
\* pixel, for every size, seam offset and vertical origin.
C6_CanonicalRanges ==
    Ran("coords") =>
        /\ -(Turn(cfg) \div 2) <= lam /\ lam <= Turn(cfg) \div 2
        /\ -(Turn(cfg) \div 4) <= phi /\ phi <= Turn(cfg) \div 4

\* a wrapped longitude that is exactly -pi, under a seam offset
C6_Witness ==
    /\ Ran("coords") /\ cfg.SEAM_OFFSET_DEG # 0
    /\ LamRaw(cfg, px) # lam
    /\ lam = -(Turn(cfg) \div 2)

\* ------------------------------------------------------------------------
\* C7: for a longitude step that divides the full circle the distance
\* dist_to_grid gives for the wrapped longitude is the distance it gives for
\* the unwrapped one; the distances of the two columns on either side of the
\* seam differ by at most one pixel, and without a seam offset they are equal.
LonFamilies == {"lon_major", "lon_minor"}
DividesCircle(deg) == deg > 0 /\ 360 % deg = 0
LonDistAt(c, x, f) == DistToGrid(Lam(c, x), Radians(c, StepOf(c, f)))
C7_NoSeamDiscontinuity ==
    Ran("dist") =>
        \A f \in LonFamilies : DividesCircle(StepOf(cfg, f)) =>
            /\ dist[f] = DistToGrid(LamRaw(cfg, px), Radians(cfg, StepOf(cfg, f)))
            /\ LET right == (px + 1) % cfg.W
               IN  Lam(cfg, right) <= lam =>
                     /\ Abs(LonDistAt(cfg, right, f).t - dist[f].t)
                            <= Turn(cfg) \div cfg.W
                     /\ cfg.SEAM_OFFSET_DEG = 0 =>
                            LonDistAt(cfg, right, f).t = dist[f].t

\* the column left of the seam of an image several columns wide, its
\* longitude wrapped, under a seam offset
C7_Witness ==
    /\ Ran("dist") /\ cfg.W > 1 /\ cfg.SEAM_OFFSET_DEG # 0
    /\ LamRaw(cfg, px) # lam
    /\ Lam(cfg, (px + 1) % cfg.W) < lam
    /\ DividesCircle(cfg.DLON_DEG_MAJOR)
    /\ dist.lon_major.t > 0

\* ------------------------------------------------------------------------
\* C8: at a pixel whose longitude is a whole multiple of the major longitude
\* step the major longitude distance is 0, its coverage is 1 and so is the
\* mask, whatever the configured width, zero included.  Checked for every
\* configuration with positive major steps.
C8_OnLineCoverage ==
    (MajorStepsPositive /\ Ran("coords")
        /\ lam % Radians(cfg, cfg.DLON_DEG_MAJOR) = 0) =>
        /\ Ran("dist") => dist.lon_major = AngTicks(0)
        /\ Ran("px") => REq(dist_px.lon_major, ZERO)
        /\ Ran("cov") => REq(cov.lon_major, ONE)
        /\ Ran("done") => REq(mask, ONE)

\* a pixel on a major longitude line with the widths configured as 0
C8_Witness ==
    /\ pc = "done" /\ MajorStepsPositive
    /\ lam % Radians(cfg, cfg.DLON_DEG_MAJOR) = 0
    /\ cfg.AA_WIDTH_MAJOR = 0
    /\ REq(width.lon_major, ZERO)
    /\ REq(mask, ONE)

\* ------------------------------------------------------------------------
\* C9: with POLE_TAPER on, every family's half-width is its width before the
\* taper times clip(cos(phi), 0.2, 1): at least 0.2 times that width (so not
\* zero when that width is not), at most that width, and strictly less than
\* it wherever phi # 0.
UntaperedWidths == PreTaperWidths(cfg, lam, phi)
C9_PoleTaper ==
    (pc = "width" /\ cfg.POLE_TAPER) =>
        \A f \in Families :
            LET pre == UntaperedWidths[f]
                c == Cos(cfg, phi)
            IN  /\ RLe(RMul(Rat(TAPER_FLOOR, 10), pre), width[f])
                /\ RLe(width[f], pre)
                /\ RLe(Rat(TAPER_FLOOR, 10), c) => REq(width[f], RMul(pre, c))
                /\ RLt(c, Rat(TAPER_FLOOR, 10)) =>
                       REq(width[f], RMul(Rat(TAPER_FLOOR, 10), pre))
                /\ RLt(ZERO, pre) => RLt(ZERO, width[f])
                /\ (phi # 0 /\ RLt(ZERO, pre)) => RLt(width[f], pre)
                /\ phi = 0 => REq(width[f], pre)

\* a pole row of the shipped image: cos(phi) is below the floor, the width
\* is 0.2 times the untapered one
C9_Witness ==
    /\ pc = "width" /\ cfg = Shipped /\ py = 0
    /\ RLt(Cos(cfg, phi), Rat(TAPER_FLOOR, 10))
    /\ \A f \in Families :
          /\ RLt(ZERO, width[f])
          /\ REq(width[f], RMul(Rat(TAPER_FLOOR, 10), UntaperedWidths[f]))

\* ------------------------------------------------------------------------
\* C10: with MAJOR_EQ_SCALE = 2.0 and the taper off, the latitude-major
\* half-width at a pixel with phi = 0 is exactly twice the one at every row
\* off the equator, and the equator emphasis multiplies no other width: the
\* longitude-major width is AA_WIDTH_MAJOR, times MAJOR_PM_SCALE on the
\* emphasised meridians only, and the minor widths are AA_WIDTH_MINOR.
C10_EquatorEmphasis ==
    (Ran("width") /\ ~cfg.POLE_TAPER /\ cfg.MAJOR_EQ_SCALE = 20) =>
        /\ phi = 0 =>
              /\ REq(width.lat_major, RMul(Rat(2, 1), Rat(cfg.AA_WIDTH_MAJOR, 10)))
              /\ \A y \in Rows(cfg) : Phi(cfg, y) # 0 =>
                    REq(width.lat_major,
                        RMul(Rat(2, 1), Widths(cfg, lam, Phi(cfg, y)).lat_major))
        /\ phi # 0 => REq(width.lat_major, Rat(cfg.AA_WIDTH_MAJOR, 10))
        /\ REq(width.lon_major,
               IF PmEmph(cfg, lam)
               THEN RMul(Rat(cfg.AA_WIDTH_MAJOR, 10), Rat(cfg.MAJOR_PM_SCALE, 10))
               ELSE Rat(cfg.AA_WIDTH_MAJOR, 10))
        /\ REq(width.lon_minor, Rat(cfg.AA_WIDTH_MINOR, 10))
        /\ REq(width.lat_minor, Rat(cfg.AA_WIDTH_MINOR, 10))

\* the middle row of an image three rows high, taper off, shipped widths
C10_Witness ==
    /\ Ran("width") /\ ~cfg.POLE_TAPER /\ cfg.H > 1 /\ phi = 0
    /\ cfg.AA_WIDTH_MAJOR = SHIP_AA_WIDTH_MAJOR
    /\ ~PmEmph(cfg, lam)
    /\ REq(width.lat_major, Rat(76, 10))
    /\ REq(width.lon_major, Rat(38, 10))

====
